---- MODULE Spec2Model ----
(***************************************************************************)
(* Model of src/main.py: AdvancedTelegramCrawler (deduplicated ingestion   *)
(* of Telegram messages into SQLite) and TelegramCrawlerManager.           *)
(*                                                                         *)
(* Coroutines are modelled at the granularity of asyncio: a step runs from *)
(* the completion of one network await to the next one.  The SQLite calls  *)
(* and save_user_info contain no network await and never yield.            *)
(***************************************************************************)
EXTENDS Integers, Sequences, FiniteSets, TLC

VARIABLES
    messages,    \* table messages: sequence of rows, row id = position
    users,       \* table users: function user_id -> row
    chats,       \* table chats: function chat_id -> row
    user_cache,  \* self.user_cache
    tasks,       \* handler and save_message invocations in flight or finished, per slot
    origin,      \* history: for each inserted message_hash, the call that inserted it
    mgr,         \* TelegramCrawlerManager.full_crawl_and_monitor: position and locals
    nEvents,     \* number of NewMessage events delivered in this run
    nRuns,       \* number of process runs started so far
    nFaults,     \* failures the environment has produced so far
    probe        \* inputs and outputs of the raw-form evaluation (SpecRaw)

vars == <<messages, users, chats, user_cache, tasks, origin, mgr, nEvents, nRuns, nFaults, probe>>

-----------------------------------------------------------------------------
(* Bounds of the model *)

MaxLive == 2        \* NewMessage handlers that may be in flight together
MaxEvents == 2      \* NewMessage events delivered over all runs
MaxFaults == 1      \* unusual events over all runs: a failure of the transport or
                    \* the storage, a changed name or title, a cancellation, a kill
MaxRuns == 2        \* process runs (the database file survives a run)
Limit == 2          \* messages_per_chat handed to crawl_all_chats
MaxRawId == 3       \* ids drawn for the raw-form evaluation

\* telethon marks a channel peer's id as -(10^12 + channel_id); the offset is
\* scaled down to fit TLC's 32-bit integers
ChannelMark == 1000000

Null == "NULL"      \* Python None / SQL NULL in a text column
NoId == 0           \* Python None in an integer position (falsy like None)

-----------------------------------------------------------------------------
(* Values delivered by the transport *)

PeerChannel(c) == [type |-> "PeerChannel", id |-> c]
PeerChat(g) == [type |-> "PeerChat", id |-> g]
PeerUser(u) == [type |-> "PeerUser", id |-> u]

\* message.chat_id as the client library exposes it: the marked id of peer_id
get_peer_id(peer) ==
    CASE peer.type = "PeerChannel" -> -(ChannelMark + peer.id)
      [] peer.type = "PeerChat" -> -peer.id
      [] OTHER -> peer.id

\* A raw message object; has_chat_id is hasattr(message, 'chat_id')
RawMessage(id, peer, text, sender, direct) ==
    [id |-> id, peer_id |-> peer, text |-> text, sender_id |-> sender,
     has_chat_id |-> direct, chat_id |-> IF direct THEN get_peer_id(peer) ELSE NoId]

NoMessage == RawMessage(0, PeerUser(0), Null, NoId, TRUE)

\* Python truthiness of a text value (None and '' are falsy)
TruthyText_EmptyPasses(text) == text # Null

TruthyText(text) == text # Null /\ text # ""

TruthyId(id) == id # NoId

-----------------------------------------------------------------------------
(* Fingerprint *)

\* f"{message_id}_{chat_id}_{text}"; the SHA-256 digest is injective on the
\* strings of the model and is represented by its preimage
generate_message_hash(message_id, chat_id, text) ==
    ToString(message_id) \o "_" \o ToString(chat_id) \o "_" \o text

\* message.chat_id if hasattr(message, 'chat_id') else message.peer_id.channel_id
\* ok = FALSE: AttributeError (a PeerChat or PeerUser has no channel_id)
EffectiveChatId(m) ==
    IF m.has_chat_id THEN [ok |-> TRUE, val |-> m.chat_id]
    ELSE IF m.peer_id.type = "PeerChannel" THEN [ok |-> TRUE, val |-> m.peer_id.id]
    ELSE [ok |-> FALSE, val |-> NoId]

-----------------------------------------------------------------------------
(* Storage *)

DB == [messages |-> messages, users |-> users, chats |-> chats, user_cache |-> user_cache]

\* CURRENT_TIMESTAMP: the clock of the storage, read to the granularity of
\* one run of the program (a later run reads a later time)
Now == nRuns

\* INSERT OR REPLACE deletes the row that holds the key and inserts the new
\* one: a column the statement does not name (created_at, lines 143-145 and
\* 188-190) gets its DEFAULT again, which is CURRENT_TIMESTAMP (lines 49, 85)
Put(f, k, v) == [x \in DOMAIN f \cup {k} |-> IF x = k THEN v ELSE f[x]]

message_exists_Never(rows, message_hash) == FALSE

\* SELECT 1 FROM messages WHERE message_hash = ? LIMIT 1
message_exists(rows, message_hash) ==
    \E i \in 1..Len(rows) : rows[i].message_hash = message_hash

NoSender == [given |-> FALSE, user_id |-> NoId, username |-> Null,
             first_name |-> Null, last_name |-> Null]

NoChatInfo == [given |-> FALSE, chat_id |-> NoId, title |-> Null, username |-> Null,
               chat_type |-> Null]

\* {'title': 'Unknown', 'username': None}
PlaceholderChat == [given |-> TRUE, chat_id |-> NoId, title |-> "Unknown", username |-> Null,
                    chat_type |-> Null]

\* save_user_info: ret is the returned dict, raised a storage error that escapes.
\* wr_ok is whether the storage accepts the write.
save_user_info_NoCache(db, user, wr_ok) ==
    LET user_data == [given |-> TRUE, user_id |-> user.id, username |-> user.username,
                      first_name |-> user.first_name, last_name |-> user.last_name]
    IN IF ~wr_ok
       THEN [db |-> db, ret |-> NoSender, raised |-> TRUE]
       ELSE [db |-> [db EXCEPT !.users = Put(@, user.id,
                                   [user_id |-> user.id, username |-> user.username,
                                    first_name |-> user.first_name,
                                    last_name |-> user.last_name,
                                    created_at |-> Now, updated_at |-> Now]),
                                !.user_cache = Put(@, user.id, user_data)],
             ret |-> user_data, raised |-> FALSE]

save_user_info(db, user, wr_ok) ==
    LET user_data == [given |-> TRUE, user_id |-> user.id, username |-> user.username,
                      first_name |-> user.first_name, last_name |-> user.last_name]
    IN IF user.id \in DOMAIN db.user_cache
       THEN [db |-> db, ret |-> db.user_cache[user.id], raised |-> FALSE]
       ELSE IF ~wr_ok
       THEN [db |-> db, ret |-> NoSender, raised |-> TRUE]
       ELSE [db |-> [db EXCEPT !.users = Put(@, user.id,
                                   [user_id |-> user.id, username |-> user.username,
                                    first_name |-> user.first_name,
                                    last_name |-> user.last_name,
                                    created_at |-> Now, updated_at |-> Now]),
                                !.user_cache = Put(@, user.id, user_data)],
             ret |-> user_data, raised |-> FALSE]

\* save_chat_info, lines 176-179: a public username gives the link without a probe
HasPublicUsername(chat) == TruthyText(chat.username)

PublicLink(chat) == "https://t.me/" \o chat.username

\* save_chat_info, lines 182-186: outcome of the permission probe; every failure
\* of the probe is swallowed
ProbeLink(perm_ok) == IF perm_ok THEN "private_group" ELSE Null

\* save_chat_info, lines 166-173 and 188-203: INSERT OR REPLACE INTO chats, commit
WriteChat(db, chat, invite_link, wr_ok) ==
    LET chat_data == [given |-> TRUE, chat_id |-> chat.id, title |-> chat.title,
                      username |-> chat.username, chat_type |-> chat.type]
    IN IF ~wr_ok
       THEN [db |-> db, ret |-> NoChatInfo, raised |-> TRUE]
       ELSE [db |-> [db EXCEPT !.chats = Put(@, chat.id,
                                   [chat_id |-> chat.id, title |-> chat.title,
                                    username |-> chat.username, chat_type |-> chat.type,
                                    invite_link |-> invite_link,
                                    created_at |-> Now, updated_at |-> Now])],
             ret |-> chat_data, raised |-> FALSE]

\* save_chat_info run without interleaving (the backfill has no concurrent task)
save_chat_info(db, chat, perm_ok, wr_ok) ==
    WriteChat(db, chat,
              IF HasPublicUsername(chat) THEN PublicLink(chat) ELSE ProbeLink(perm_ok),
              wr_ok)

-----------------------------------------------------------------------------
(* Entities the transport resolves *)

FirstNames == {"Ann", "Bob"}     \* profile values a user may carry over time
Titles == {"News", "News2"}      \* titles a channel may carry over time

UserEntity(id, first_name) ==
    [type |-> "User", id |-> id, username |-> "user" \o ToString(id),
     first_name |-> first_name, last_name |-> Null]

\* a channel has a public username, a basic group has none
ChatEntity(peer, title) ==
    IF peer.type = "PeerChannel"
    THEN [type |-> "Channel", id |-> peer.id, title |-> title, username |-> "chan"]
    ELSE [type |-> "Chat", id |-> peer.id, title |-> "Group", username |-> Null]

NoEntity == [type |-> Null, id |-> NoId, title |-> Null, username |-> Null]

\* what the environment answers within one step: got = the awaited transport
\* call succeeded, perm_ok = the permission probe gave a result, wr_ok = the
\* storage accepts the User/Chat write, ins_ok = the storage accepts the
\* Message write
Envs == [got : BOOLEAN, perm_ok : BOOLEAN, wr_ok : BOOLEAN, ins_ok : BOOLEAN,
         first_name : FirstNames, title : Titles]

\* how many of the answers differ from the usual ones: a failure, a changed
\* first name, a changed title
Faults(env) ==
    (IF env.got THEN 0 ELSE 1) + (IF env.perm_ok THEN 0 ELSE 1)
    + (IF env.wr_ok THEN 0 ELSE 1) + (IF env.ins_ok THEN 0 ELSE 1)
    + (IF env.first_name = "Ann" THEN 0 ELSE 1) + (IF env.title = "News" THEN 0 ELSE 1)

\* the answers a step may get: the flags name the answers the step consults
\* (the others are left at their defaults), within the budget of unusual answers
EnvSet(g, p, w, i, f, t) ==
    {e \in Envs : /\ (g \/ e.got) /\ (p \/ e.perm_ok) /\ (w \/ e.wr_ok) /\ (i \/ e.ins_ok)
                  /\ (f \/ e.first_name = "Ann") /\ (t \/ e.title = "News")
                  /\ nFaults + Faults(e) <= MaxFaults}

-----------------------------------------------------------------------------
(* save_message, lines 205-271 *)

\* a call of save_message: its position, its arguments and locals, and what
\* became of it (sender_failed, chat_failed, dup and result record the path
\* taken; stale: save_user_info answered from the cache while the entity
\* carried another first name)
IdleTask == [pc |-> "idle", via |-> "none", m |-> NoMessage, hash |-> Null,
             sender_info |-> NoSender, chat_info |-> NoChatInfo, chat_ent |-> NoEntity,
             sender_failed |-> FALSE, chat_failed |-> FALSE,
             result |-> "none", dup |-> FALSE, stale |-> FALSE]

\* the call returns or raises: its locals are gone
Finish(t, result) ==
    [t EXCEPT !.pc = "done", !.result = result, !.sender_info = NoSender,
              !.chat_info = NoChatInfo, !.chat_ent = NoEntity]

UniqueViolation_Unconstrained(rows, message_hash) == FALSE

\* message_hash TEXT UNIQUE NOT NULL (line 58): the INSERT raises IntegrityError
UniqueViolation(rows, message_hash) ==
    \E i \in 1..Len(rows) : rows[i].message_hash = message_hash

MessageRow(t) ==
    [message_hash |-> t.hash,
     message_id |-> t.m.id,
     chat_id |-> EffectiveChatId(t.m).val,
     chat_title |-> t.chat_info.title,
     chat_username |-> t.chat_info.username,
     sender_id |-> t.m.sender_id,
     sender_username |-> IF t.sender_info.given THEN t.sender_info.username ELSE Null,
     sender_first_name |-> IF t.sender_info.given THEN t.sender_info.first_name ELSE Null,
     sender_last_name |-> IF t.sender_info.given THEN t.sender_info.last_name ELSE Null,
     text |-> t.m.text]

InsertRow_Replacing(t, db, org, env) ==
    IF ~env.ins_ok
    THEN [t |-> Finish(t, "OperationalError"), db |-> db, org |-> org]
    ELSE LET same == {i \in 1..Len(db.messages) : db.messages[i].message_hash = t.hash}
         IN IF same # {}
            THEN [t |-> Finish(t, "True"),
                  db |-> [db EXCEPT !.messages[CHOOSE i \in same : TRUE] = MessageRow(t)],
                  org |-> org]
            ELSE [t |-> Finish(t, "True"),
                  db |-> [db EXCEPT !.messages = Append(@, MessageRow(t))],
                  org |-> Put(org, t.hash, [via |-> t.via, m |-> t.m])]

\* lines 240-271: INSERT INTO messages, commit, return True.  No except clause:
\* a storage error leaves save_message as an exception.
InsertRow(t, db, org, env) ==
    IF ~env.ins_ok
    THEN [t |-> Finish(t, "OperationalError"), db |-> db, org |-> org]
    ELSE IF UniqueViolation(db.messages, t.hash)
    THEN [t |-> Finish([t EXCEPT !.dup = TRUE], "IntegrityError"), db |-> db, org |-> org]
    ELSE [t |-> Finish(t, "True"),
          db |-> [db EXCEPT !.messages = Append(@, MessageRow(t))],
          org |-> Put(org, t.hash, [via |-> t.via, m |-> t.m])]

\* lines 231-232: with a chat context go on to the insert, else await get_entity(peer_id)
ResolveChatOrInsert(t, db, org, env) ==
    IF t.chat_info.given
    THEN InsertRow(t, db, org, env)
    ELSE [t |-> [t EXCEPT !.pc = "get_chat"], db |-> db, org |-> org]

HashChatId_FromContext(t) ==
    IF t.chat_info.given THEN [ok |-> TRUE, val |-> t.chat_info.chat_id]
    ELSE EffectiveChatId(t.m)

\* lines 211-215: the chat id that enters the fingerprint is taken from the
\* message alone, whatever chat context the caller supplied
HashChatId(t) == EffectiveChatId(t.m)

\* lines 207-226: from the call to the first await
save_message_begin(t0, db, org, env) ==
    LET e == HashChatId(t0)
        h == generate_message_hash(t0.m.id, e.val, t0.m.text)
        t == [t0 EXCEPT !.hash = h]
    IN IF ~TruthyText(t0.m.text)
       THEN [t |-> Finish(t0, "False"), db |-> db, org |-> org]
       ELSE IF ~e.ok
       THEN [t |-> Finish(t0, "AttributeError"), db |-> db, org |-> org]
       ELSE IF message_exists(db.messages, h)
       THEN [t |-> Finish([t EXCEPT !.dup = TRUE], "False"), db |-> db, org |-> org]
       ELSE IF TruthyId(t0.m.sender_id)
       THEN [t |-> [t EXCEPT !.pc = "get_sender"], db |-> db, org |-> org]
       ELSE ResolveChatOrInsert(t, db, org, env)

SenderCaught_KeepsPartial(t, user) ==
    [t EXCEPT !.sender_failed = TRUE,
              !.sender_info = [NoSender EXCEPT !.given = TRUE, !.username = user.username]]

\* lines 228-229: except Exception: sender_info stays None
SenderCaught(t, user) == [t EXCEPT !.sender_failed = TRUE, !.sender_info = NoSender]

\* lines 226-229 after the await of get_entity(sender_id)
AfterSender(t, db, org, env) ==
    LET user == UserEntity(t.m.sender_id, env.first_name)
        r == save_user_info(db, user, env.wr_ok)
    IN IF ~env.got \/ r.raised
       THEN ResolveChatOrInsert(SenderCaught(t, user), db, org, env)
       ELSE ResolveChatOrInsert([t EXCEPT !.sender_info = r.ret,
                                          !.stale = (r.ret.first_name # user.first_name)],
                                r.db, org, env)

ChatCaught_NoPlaceholder(t) ==
    [t EXCEPT !.chat_failed = TRUE, !.chat_info = [NoChatInfo EXCEPT !.given = TRUE]]

\* lines 236-238: except Exception: placeholder chat context
ChatCaught(t) == [t EXCEPT !.chat_failed = TRUE, !.chat_info = PlaceholderChat]

\* save_chat_info from the write on, inside save_message's try (line 235)
ChatWritten(t, db, org, env, invite_link) ==
    LET r == WriteChat(db, t.chat_ent, invite_link, env.wr_ok)
    IN IF r.raised
       THEN InsertRow(ChatCaught(t), db, org, env)
       ELSE InsertRow([t EXCEPT !.chat_info = r.ret], r.db, org, env)

\* lines 234-235 after the await of get_entity(peer_id), up to the permission probe
AfterChat(t, db, org, env) ==
    LET chat == ChatEntity(t.m.peer_id, env.title)
        t1 == [t EXCEPT !.chat_ent = chat]
    IN IF ~env.got
       THEN InsertRow(ChatCaught(t), db, org, env)
       ELSE IF HasPublicUsername(chat)
       THEN ChatWritten(t1, db, org, env, PublicLink(chat))
       ELSE [t |-> [t1 EXCEPT !.pc = "get_permissions"], db |-> db, org |-> org]

\* save_chat_info after the await of get_permissions (lines 182-203)
AfterProbe(t, db, org, env) == ChatWritten(t, db, org, env, ProbeLink(env.perm_ok))

-----------------------------------------------------------------------------
(* The account: dialogs, histories, live events *)

Channel1 == PeerChannel(1)
Group2 == PeerChat(2)
User7 == PeerUser(7)

\* client.iter_dialogs(): a channel, a private conversation, a basic group
Dialogs == << [peer |-> Channel1, is_group |-> FALSE, is_channel |-> TRUE],
              [peer |-> User7, is_group |-> FALSE, is_channel |-> FALSE],
              [peer |-> Group2, is_group |-> TRUE, is_channel |-> FALSE] >>

M3 == RawMessage(3, Channel1, "hi", 7, TRUE)
M2 == RawMessage(2, Channel1, Null, 7, TRUE)      \* a media message without text
M1 == RawMessage(1, Channel1, "yo", NoId, TRUE)   \* no sender_id
G1 == RawMessage(1, Group2, "hey", 7, TRUE)
G2 == RawMessage(2, Group2, "sup", NoId, TRUE)    \* no sender_id
P5 == RawMessage(5, User7, "psst", 7, TRUE)       \* a private conversation
E6 == RawMessage(6, Channel1, "", 7, TRUE)        \* empty text

\* client.iter_messages(chat_id): newest first
History(chat_id) ==
    CASE chat_id = 1 -> <<M3, M2, M1>>
      [] chat_id = 2 -> <<G2, G1>>
      [] OTHER -> <<>>

\* the peer behind the id stored in chat_info['chat_id'] (line 290)
PeerOfChatId(chat_id) == IF chat_id = 1 THEN Channel1 ELSE Group2

\* messages the NewMessage subscription may deliver, repeats included
LiveMsgs == {M3, M1, G1, P5, E6}

AllMsgs == {M1, M2, M3, G1, G2, P5, E6}

-----------------------------------------------------------------------------
(* State after construction (lines 15-33, 496-497) *)

EmptyTable == [x \in {} |-> NoId]

TaskIds == 0..MaxLive      \* 0: the backfill's call, 1..MaxLive: NewMessage handlers

\* what crawl_chat_messages returned last (count), with what happened in it
\* failed: "no", or where the chat's processing failed
\* seen: the position in the page of the last message taken from it
NoReturn == [valid |-> FALSE, chat_id |-> NoId, count |-> 0, failed |-> "no", inserted |-> 0,
             seen |-> 0]

\* run_base: the number of rows in messages when the run began;
\* returned: crawl_all_chats has returned total;
\* handler_failed: handle_new_message has logged an error in this run;
\* conn: the sqlite3 connection; interrupted: the messages whose save_message
\* call was cut short, or had just committed, when the previous run was killed
NewManager ==
    [pc |-> "start", di |-> 1, ci |-> 1, mi |-> 1, chats |-> <<>>,
     chat_info |-> NoChatInfo, count |-> 0, base |-> 0, total |-> 0,
     last |-> NoReturn, error |-> "none", run_base |-> 0, returned |-> FALSE,
     handler_failed |-> FALSE, conn |-> "open", interrupted |-> {}]

\* the manager of this run with its locals dropped
Reset(m) == [NewManager EXCEPT !.run_base = m.run_base, !.interrupted = m.interrupted]

NoProbe == [stage |-> 0, direct |-> NoMessage, nested |-> NoMessage,
            direct_id |-> [ok |-> FALSE, val |-> NoId], direct_hash |-> Null,
            nested_id |-> [ok |-> FALSE, val |-> NoId], nested_hash |-> Null]

Init ==
    /\ messages = <<>>
    /\ users = EmptyTable
    /\ chats = EmptyTable
    /\ user_cache = EmptyTable
    /\ tasks = [k \in TaskIds |-> IdleTask]
    /\ origin = EmptyTable
    /\ mgr = NewManager
    /\ nEvents = 0
    /\ nRuns = 1
    /\ nFaults = 0
    /\ probe = NoProbe

ApplyDB(db) ==
    /\ messages' = db.messages
    /\ users' = db.users
    /\ chats' = db.chats
    /\ user_cache' = db.user_cache

ApplyTask(k, r) ==
    /\ tasks' = [tasks EXCEPT ![k] = r.t]
    /\ ApplyDB(r.db)
    /\ origin' = r.org

close_connection_Noop(m) == m

\* close_connection, lines 489-492
close_connection(m) == [m EXCEPT !.conn = "closed"]

\* full_crawl_and_monitor, lines 515-520: the run is over, the finally block
\* has closed the handle
Ended(kind) == close_connection([NewManager EXCEPT !.pc = "closed", !.error = kind])

\* full_crawl_and_monitor, lines 517-520: the exception is logged, the handle closed
Escaped(kind) == Ended(kind)

-----------------------------------------------------------------------------
(* Backfill: crawl_all_chats, get_all_chats, crawl_chat_messages *)

\* line 310: await self.start_client()
StartClient ==
    /\ mgr.pc = "start"
    /\ \E env \in EnvSet(TRUE, FALSE, FALSE, FALSE, FALSE, FALSE) :
          /\ mgr' = IF env.got THEN [mgr EXCEPT !.pc = "dialogs"]
                    ELSE Escaped("start_client")
          /\ nFaults' = nFaults + Faults(env)
    /\ UNCHANGED <<messages, users, chats, user_cache, tasks, origin, nEvents, nRuns, probe>>

\* lines 277-280: one dialog of iter_dialogs; save_chat_info is not guarded here
GetAllChatsStep ==
    /\ mgr.pc = "dialogs"
    /\ mgr.di <= Len(Dialogs)
    /\ LET d == Dialogs[mgr.di]
           kept == d.is_group \/ d.is_channel
       IN \E env \in EnvSet(TRUE, d.is_group, kept, FALSE, FALSE, d.is_channel) :
             LET r == save_chat_info(DB, ChatEntity(d.peer, env.title),
                                     env.perm_ok, env.wr_ok)
             IN /\ nFaults' = nFaults + Faults(env)
                /\ IF ~env.got
                   THEN mgr' = Escaped("iter_dialogs") /\ ApplyDB(DB)
                   ELSE IF ~kept
                   THEN mgr' = [mgr EXCEPT !.di = @ + 1] /\ ApplyDB(DB)
                   ELSE IF r.raised
                   THEN mgr' = Escaped("save_chat_info") /\ ApplyDB(DB)
                   ELSE /\ mgr' = [mgr EXCEPT !.di = @ + 1, !.chats = Append(@, r.ret)]
                        /\ ApplyDB(r.db)
    /\ UNCHANGED <<tasks, origin, nEvents, nRuns, probe>>

\* lines 282-283, 315: the dialog list is exhausted
GetAllChatsDone ==
    /\ mgr.pc = "dialogs"
    /\ mgr.di > Len(Dialogs)
    /\ mgr' = [mgr EXCEPT !.pc = "crawl", !.ci = 1, !.total = 0]
    /\ UNCHANGED <<messages, users, chats, user_cache, tasks, origin, nEvents, nRuns,
                   nFaults, probe>>

ReturnCaught_Zero(count) == 0

\* lines 303-306: the except clause logs; the counter is returned as it stands
ReturnCaught(count) == count

\* lines 306, 321-322: crawl_chat_messages returns, the total is advanced
ChatReturns(m, count, failed) ==
    [m EXCEPT !.pc = "crawl", !.ci = @ + 1, !.total = @ + count, !.count = 0,
              !.chat_info = NoChatInfo, !.mi = 1, !.base = 0,
              !.last = [valid |-> TRUE, chat_id |-> m.chats[m.ci].chat_id,
                        count |-> count, failed |-> failed,
                        inserted |-> Len(messages) - m.base,
                        seen |-> IF failed = "resolve" THEN 0
                                 ELSE IF failed = "no" THEN m.mi - 1 ELSE m.mi]]

\* lines 287-293: get_entity(chat_id) and save_chat_info inside the try
CrawlChatBegin ==
    /\ mgr.pc = "crawl"
    /\ mgr.ci <= Len(mgr.chats)
    /\ LET chat_id == mgr.chats[mgr.ci].chat_id
           peer == PeerOfChatId(chat_id)
           chan == peer.type = "PeerChannel"
       IN \E env \in EnvSet(TRUE, ~chan, TRUE, FALSE, FALSE, chan) :
             LET r == save_chat_info(DB, ChatEntity(peer, env.title), env.perm_ok, env.wr_ok)
                 m0 == [mgr EXCEPT !.count = 0, !.base = Len(messages), !.last = NoReturn]
             IN /\ nFaults' = nFaults + Faults(env)
                /\ IF ~env.got \/ r.raised
                   THEN ApplyDB(DB) /\ mgr' = ChatReturns(m0, ReturnCaught(0), "resolve")
                   ELSE /\ ApplyDB(r.db)
                        /\ mgr' = [m0 EXCEPT !.pc = "iter", !.mi = 1, !.chat_info = r.ret]
    /\ UNCHANGED <<tasks, origin, nEvents, nRuns, probe>>

\* iter_messages(chat_id, limit=limit) yields at most limit messages
Paged_Unlimited(chat_id) == History(chat_id)

Paged(chat_id) ==
    LET h == History(chat_id)
    IN IF Len(h) <= Limit THEN h ELSE SubSeq(h, 1, Limit)

\* lines 295-296: the page is exhausted, the loop ends
CrawlIterEnd ==
    /\ mgr.pc = "iter"
    /\ mgr.mi > Len(Paged(mgr.chats[mgr.ci].chat_id))
    /\ mgr' = ChatReturns(mgr, mgr.count, "no")
    /\ UNCHANGED <<messages, users, chats, user_cache, tasks, origin, nEvents, nRuns,
                   nFaults, probe>>

\* lines 295-297: the next message of the page, or a paging error
CrawlIter ==
    /\ mgr.pc = "iter"
    /\ mgr.mi <= Len(Paged(mgr.chats[mgr.ci].chat_id))
    /\ LET msg == Paged(mgr.chats[mgr.ci].chat_id)[mgr.mi]
           t0 == [IdleTask EXCEPT !.via = "backfill", !.m = msg, !.chat_info = mgr.chat_info]
       IN \E env \in EnvSet(TRUE, FALSE, FALSE,
                            TruthyText(msg.text) /\ ~TruthyId(msg.sender_id), FALSE, FALSE) :
             /\ nFaults' = nFaults + Faults(env)
             /\ IF ~env.got
                THEN /\ mgr' = ChatReturns(mgr, ReturnCaught(mgr.count), "paging")
                     /\ UNCHANGED <<messages, users, chats, user_cache, tasks, origin>>
                ELSE IF ~TruthyText(msg.text)
                THEN /\ mgr' = [mgr EXCEPT !.mi = @ + 1]
                     /\ UNCHANGED <<messages, users, chats, user_cache, tasks, origin>>
                ELSE /\ mgr' = [mgr EXCEPT !.pc = "saving"]
                     /\ ApplyTask(0, save_message_begin(t0, DB, origin, env))
    /\ UNCHANGED <<nEvents, nRuns, probe>>

CountAfter_Always(count, is_new) == count + 1

\* lines 298-299: if is_new: new_messages_count += 1
CountAfter(count, is_new) == IF is_new THEN count + 1 ELSE count

\* lines 297-299 and 303: save_message has returned or raised
CrawlSaved ==
    /\ mgr.pc = "saving"
    /\ tasks[0].pc = "done"
    /\ mgr' = IF tasks[0].result \in {"True", "False"}
              THEN [mgr EXCEPT !.pc = "iter", !.mi = @ + 1,
                               !.count = CountAfter(@, tasks[0].result = "True")]
              ELSE ChatReturns(mgr, ReturnCaught(mgr.count), "save_message")
    /\ UNCHANGED <<messages, users, chats, user_cache, tasks, origin, nEvents, nRuns,
                   nFaults, probe>>

\* lines 327-328 and 508-513: the backfill returns its total;
\* start_real_time_monitoring calls start_client and registers the handler
CrawlAllDone ==
    /\ mgr.pc = "crawl"
    /\ mgr.ci > Len(mgr.chats)
    /\ \E env \in EnvSet(TRUE, FALSE, FALSE, FALSE, FALSE, FALSE) :
          /\ mgr' = IF env.got
                    THEN [Reset(mgr) EXCEPT !.pc = "monitoring", !.total = mgr.total,
                                            !.returned = TRUE]
                    ELSE Escaped("start_client")
          /\ nFaults' = nFaults + Faults(env)
    /\ UNCHANGED <<messages, users, chats, user_cache, tasks, origin, nEvents, nRuns, probe>>

-----------------------------------------------------------------------------
(* Live monitoring: setup_real_time_listener, lines 330-342 *)

ListenerRegistered_FromStart == mgr.pc \in {"dialogs", "crawl", "iter", "saving", "monitoring"}

\* lines 505 and 513, 346-347: the NewMessage handler is registered by
\* start_real_time_monitoring, which is called after crawl_all_chats returned
ListenerRegistered == mgr.pc = "monitoring"

HandlerErrors == {"AttributeError", "IntegrityError", "OperationalError"}

HandlerCaught_Escapes(m) == Ended("handler")

\* lines 341-342: except Exception: the error is logged, nothing else changes
HandlerCaught(m) == [m EXCEPT !.handler_failed = TRUE]

\* the manager after the call in slot k got to t: an exception that leaves
\* save_message in a handler task arrives at the handler's except clause
HandlerEnds(k, t) ==
    IF k # 0 /\ t.pc = "done" /\ t.result \in HandlerErrors
    THEN HandlerCaught(mgr)
    ELSE mgr

Routed_TextOnly(m) == TruthyText(m.text)

\* lines 335-337: text, and a peer_id with channel_id or chat_id
Routed(m) == TruthyText(m.text) /\ m.peer_id.type \in {"PeerChannel", "PeerChat"}

Free(k) == tasks[k].pc \in {"idle", "done"}

\* the slot a new handler task takes (slots are interchangeable)
FreeSlot == CHOOSE k \in 1..MaxLive : Free(k) /\ \A j \in 1..(k - 1) : ~Free(j)

Env0 == [got |-> TRUE, perm_ok |-> TRUE, wr_ok |-> TRUE, ins_ok |-> TRUE,
         first_name |-> "Ann", title |-> "News"]

\* handle_new_message is started for an event; the library runs each handler
\* as a task of its own, so handlers interleave at their awaits.  Without a
\* chat context the call reaches an await before any write.
LiveEvent(m) ==
    /\ ListenerRegistered
    /\ nEvents < MaxEvents
    /\ \E k \in 1..MaxLive : Free(k)
    /\ LET t0 == [IdleTask EXCEPT !.via = "live", !.m = m]
       IN IF Routed(m)
          THEN ApplyTask(FreeSlot, save_message_begin(t0, DB, origin, Env0))
          ELSE ApplyTask(FreeSlot, [t |-> Finish(t0, "not_routed"), db |-> DB, org |-> origin])
    /\ mgr' = HandlerEnds(FreeSlot, tasks'[FreeSlot])
    /\ nEvents' = nEvents + 1
    /\ UNCHANGED <<nRuns, nFaults, probe>>

Running(k) == IF k = 0 THEN mgr.pc = "saving" ELSE mgr.pc = "monitoring"

\* the await of client.get_entity(message.sender_id) completes (line 226)
SenderResolved(k) ==
    /\ Running(k)
    /\ tasks[k].pc = "get_sender"
    /\ \E env \in EnvSet(TRUE, FALSE, TRUE, tasks[k].chat_info.given, TRUE, FALSE) :
          /\ ApplyTask(k, AfterSender(tasks[k], DB, origin, env))
          /\ nFaults' = nFaults + Faults(env)
    /\ mgr' = HandlerEnds(k, tasks'[k])
    /\ UNCHANGED <<nEvents, nRuns, probe>>

\* the await of client.get_entity(message.peer_id) completes (line 234)
ChatResolved(k) ==
    /\ Running(k)
    /\ tasks[k].pc = "get_chat"
    /\ LET chan == tasks[k].m.peer_id.type = "PeerChannel"
       IN \E env \in EnvSet(TRUE, FALSE, chan, TRUE, FALSE, chan) :
             /\ ApplyTask(k, AfterChat(tasks[k], DB, origin, env))
             /\ nFaults' = nFaults + Faults(env)
    /\ mgr' = HandlerEnds(k, tasks'[k])
    /\ UNCHANGED <<nEvents, nRuns, probe>>

\* the await of client.get_permissions(chat) completes (line 182)
ProbeReturned(k) ==
    /\ Running(k)
    /\ tasks[k].pc = "get_permissions"
    /\ \E env \in EnvSet(FALSE, TRUE, TRUE, TRUE, FALSE, FALSE) :
          /\ ApplyTask(k, AfterProbe(tasks[k], DB, origin, env))
          /\ nFaults' = nFaults + Faults(env)
    /\ mgr' = HandlerEnds(k, tasks'[k])
    /\ UNCHANGED <<nEvents, nRuns, probe>>

\* the memory of the process is gone when the run is over
ProcessGone ==
    /\ tasks' = [k \in TaskIds |-> IdleTask]
    /\ user_cache' = EmptyTable
    /\ UNCHANGED nEvents

\* a handler task suspended in save_chat_info's permission probe (line 182)
Probing(k) == tasks[k].pc = "get_permissions"

\* run_until_disconnected (line 350) ends: the transport disconnected or the
\* run was cancelled while monitoring.  The client cancels the handler tasks
\* in flight before the call returns.  CancelledError is not an Exception, so
\* a task waiting in get_entity (lines 226, 234) ends without a storage
\* operation; a task waiting in get_permissions has the cancellation
\* swallowed by the bare except of line 185 and goes on.
Disconnect ==
    /\ mgr.pc = "monitoring"
    /\ IF \E k \in 1..MaxLive : Probing(k)
       THEN /\ mgr' = [mgr EXCEPT !.pc = "disconnecting"]
            /\ tasks' = [k \in TaskIds |-> IF k # 0 /\ Probing(k) THEN tasks[k] ELSE IdleTask]
            /\ UNCHANGED <<user_cache, nEvents>>
       ELSE /\ mgr' = Ended("none")
            /\ ProcessGone
    /\ UNCHANGED <<messages, users, chats, origin, nRuns, nFaults, probe>>

\* lines 185-203 and 240-271 in a cancelled handler: no invite link, the Chat
\* row and the Message row are written
CancelSwallowed(k) ==
    /\ mgr.pc = "disconnecting"
    /\ Probing(k) /\ \A j \in 1..(k - 1) : ~Probing(j)
    /\ \E env \in EnvSet(FALSE, FALSE, TRUE, TRUE, FALSE, FALSE) :
          /\ ApplyTask(k, AfterProbe(tasks[k], DB, origin, [env EXCEPT !.perm_ok = FALSE]))
          /\ nFaults' = nFaults + Faults(env)
    /\ mgr' = HandlerEnds(k, tasks'[k])
    /\ UNCHANGED <<nEvents, nRuns, probe>>

\* line 350 returns with no handler left; line 520 closes the handle
DisconnectDone ==
    /\ mgr.pc = "disconnecting"
    /\ \A k \in 1..MaxLive : ~Probing(k)
    /\ mgr' = Ended("none")
    /\ ProcessGone
    /\ UNCHANGED <<messages, users, chats, origin, nRuns, nFaults, probe>>

\* the run is cancelled from outside during the backfill: the exception leaves
\* through every except Exception clause on its way (lines 228, 303, 517) and
\* the finally block closes the handle (line 520).  A cancellation that arrives
\* inside the permission probe of the backfill is swallowed (line 185) and the
\* run goes on as with a failed probe.
Cancel ==
    /\ mgr.pc \in {"start", "dialogs", "crawl", "iter", "saving"}
    /\ nFaults < MaxFaults
    /\ nFaults' = nFaults + 1
    /\ mgr' = Ended("cancelled")
    /\ ProcessGone
    /\ UNCHANGED <<messages, users, chats, origin, nRuns, probe>>

\* the messages whose call of save_message has begun and not returned, or has
\* committed its row
InFlightOrCommitted ==
    {tasks[k].m : k \in {j \in TaskIds : tasks[j].pc # "idle"
                                         /\ tasks[j].result \in {"none", "True"}}}

\* the process is killed: nothing of lines 515-520 runs; what was committed stays
Crash ==
    /\ mgr.pc \notin {"closed", "crashed"}
    /\ nRuns < MaxRuns
    /\ nFaults < MaxFaults
    /\ nFaults' = nFaults + 1
    /\ mgr' = [NewManager EXCEPT !.pc = "crashed", !.interrupted = InFlightOrCommitted]
    /\ ProcessGone
    /\ UNCHANGED <<messages, users, chats, origin, nRuns, probe>>

\* the program is started again: a new crawler object on the same database file
Restart ==
    /\ mgr.pc \in {"closed", "crashed"}
    /\ nRuns < MaxRuns
    /\ nRuns' = nRuns + 1
    /\ mgr' = [NewManager EXCEPT !.run_base = Len(messages), !.interrupted = mgr.interrupted]
    /\ tasks' = [k \in TaskIds |-> IdleTask]
    /\ user_cache' = EmptyTable
    /\ UNCHANGED <<messages, users, chats, origin, nEvents, nFaults, probe>>

Next ==
    \/ StartClient
    \/ GetAllChatsStep
    \/ GetAllChatsDone
    \/ CrawlChatBegin
    \/ CrawlIterEnd
    \/ CrawlIter
    \/ CrawlSaved
    \/ CrawlAllDone
    \/ \E m \in LiveMsgs : LiveEvent(m)
    \/ \E k \in TaskIds : SenderResolved(k)
    \/ \E k \in 1..MaxLive : ChatResolved(k)
    \/ \E k \in 1..MaxLive : ProbeReturned(k)
    \/ Disconnect
    \/ \E k \in 1..MaxLive : CancelSwallowed(k)
    \/ DisconnectDone
    \/ Cancel
    \/ Crash
    \/ Restart

Spec == Init /\ [][Next]_vars

\* the event loop runs a cancelled handler to its end and then lets
\* run_until_disconnected return
FairSpec ==
    /\ Spec
    /\ WF_vars(\E k \in 1..MaxLive : CancelSwallowed(k))
    /\ WF_vars(DisconnectDone)

-----------------------------------------------------------------------------
(* The fingerprint of one message in its two raw forms *)

RawPeers == {PeerChannel(c) : c \in 1..MaxRawId} \cup {PeerChat(g) : g \in 1..MaxRawId}

RawTexts == {"a", "b_1"}

\* the same message once with the chat_id attribute, once with peer_id only
InitRaw ==
    /\ messages = <<>>
    /\ users = EmptyTable
    /\ chats = EmptyTable
    /\ user_cache = EmptyTable
    /\ tasks = [k \in TaskIds |-> IdleTask]
    /\ origin = EmptyTable
    /\ mgr = NewManager
    /\ nEvents = 0
    /\ nRuns = 1
    /\ nFaults = 0
    /\ \E id \in 1..MaxRawId, peer \in RawPeers, text \in RawTexts, sender \in {NoId, 7} :
          probe = [NoProbe EXCEPT !.direct = RawMessage(id, peer, text, sender, TRUE),
                                  !.nested = RawMessage(id, peer, text, sender, FALSE)]

\* lines 211-215 on a message: the effective chat id and the fingerprint
FingerprintOf(m) ==
    LET e == EffectiveChatId(m)
    IN [id |-> e, hash |-> IF e.ok THEN generate_message_hash(m.id, e.val, m.text) ELSE Null]

EvalDirect ==
    /\ probe.stage = 0
    /\ probe' = [probe EXCEPT !.stage = 1, !.direct_id = FingerprintOf(probe.direct).id,
                              !.direct_hash = FingerprintOf(probe.direct).hash]
    /\ UNCHANGED <<messages, users, chats, user_cache, tasks, origin, mgr, nEvents, nRuns,
                   nFaults>>

EvalNested ==
    /\ probe.stage = 1
    /\ probe' = [probe EXCEPT !.stage = 2, !.nested_id = FingerprintOf(probe.nested).id,
                              !.nested_hash = FingerprintOf(probe.nested).hash]
    /\ UNCHANGED <<messages, users, chats, user_cache, tasks, origin, mgr, nEvents, nRuns,
                   nFaults>>

NextRaw == EvalDirect \/ EvalNested

SpecRaw == InitRaw /\ [][NextRaw]_vars

-----------------------------------------------------------------------------
(* Properties *)

RowsWithHash(rows, h) == {i \in 1..Len(rows) : rows[i].message_hash = h}

RowWithHash(h) == messages[CHOOSE i \in 1..Len(messages) : messages[i].message_hash = h]

\* the rows of the table that hold the message m
RowsOf(rows, m) ==
    {i \in 1..Len(rows) : /\ rows[i].message_id = m.id
                          /\ rows[i].chat_id = m.chat_id
                          /\ rows[i].text = m.text}

\* this step is the backfill calling save_message (slot 0)
BackfillCall == mgr.pc = "iter" /\ mgr'.pc = "saving"

\* this step is a NewMessage handler calling save_message (slot FreeSlot)
LiveCall == nEvents' = nEvents + 1 /\ tasks'[FreeSlot].result # "not_routed"

\* an earlier call of save_message inserted the row of this very message
PreviouslyIngested(m) == \E h \in DOMAIN origin : origin[h].m = m

\* C1: under every interleaving of backfill and live ingestions, the messages
\* table never holds two rows with the same fingerprint.
OneRowPerFingerprint ==
    \A i, j \in 1..Len(messages) :
        messages[i].message_hash = messages[j].message_hash => i = j

\* C1 witness: two ingestions of one message both passed the existence check;
\* the later insert was rejected and the table holds one row for the fingerprint.
RaceLostOneRow ==
    \E k \in TaskIds :
        /\ tasks[k].result = "IntegrityError"
        /\ Cardinality(RowsWithHash(messages, tasks[k].hash)) = 1

SecondIngestIsNoOp(k) ==
    /\ tasks'[k].pc = "done"
    /\ tasks'[k].result = "False"
    /\ Cardinality(RowsOf(messages', tasks'[k].m)) = 1
    /\ UNCHANGED <<messages, users, chats, user_cache>>

\* C2: a call of save_message for a message whose row an earlier call has
\* inserted returns False without reaching any resolution await, leaves the
\* messages, users and chats tables and the user cache unchanged, and the
\* message has exactly one row.
IdempotentIngest ==
    [][ /\ (BackfillCall /\ PreviouslyIngested(tasks'[0].m)) => SecondIngestIsNoOp(0)
        /\ (LiveCall /\ PreviouslyIngested(tasks'[FreeSlot].m))
               => SecondIngestIsNoOp(FreeSlot) ]_vars

\* C2 witness: a call found its message already stored and returned False,
\* with a sender row and a chat row in the store.
ReingestedState ==
    \E k \in TaskIds :
        /\ tasks[k].pc = "done" /\ tasks[k].result = "False" /\ tasks[k].dup
        /\ tasks[k].hash \in DOMAIN origin /\ origin[tasks[k].hash].m = tasks[k].m
        /\ DOMAIN users # {} /\ DOMAIN chats # {}

\* C3 (the claim as stated): every finished call that met its fingerprint in
\* the table, at the existence check or at the insert, returned False.
DuplicateReturnsFalse ==
    \A k \in TaskIds :
        (tasks[k].pc = "done" /\ tasks[k].dup) => tasks[k].result = "False"

\* C4: a message with empty or absent text is never fingerprinted and never
\* stored: save_message returns False for it without touching the store, no
\* call for such a message carries a fingerprint, and every row has text.
NullTextSkipped ==
    /\ \A i \in 1..Len(messages) : messages[i].text \notin {"", Null}
    /\ \A k \in TaskIds :
          (tasks[k].pc # "idle" /\ tasks[k].m.text \in {"", Null})
              => /\ tasks[k].hash = Null
                 /\ tasks[k].pc = "done"
                 /\ tasks[k].result \in {"False", "not_routed"}
    /\ \A m \in AllMsgs, ctx \in {NoChatInfo, PlaceholderChat} :
          m.text \in {"", Null}
              => LET r == save_message_begin([IdleTask EXCEPT !.m = m, !.chat_info = ctx],
                                             DB, origin, Env0)
                 IN r.t.result = "False" /\ r.t.hash = Null /\ r.db = DB

\* C4 witness: a live event with empty text was delivered and dropped after the
\* backfill had paged over the text-less message of the channel.
EmptyTextDelivered ==
    /\ \E k \in 1..MaxLive : tasks[k].pc = "done" /\ tasks[k].m = E6
    /\ M3.text \in {messages[i].text : i \in 1..Len(messages)}

\* the first ingestion of the message was made in the other mode
IngestedInOtherMode(t) ==
    \E h \in DOMAIN origin : origin[h].m = t.m /\ origin[h].via # t.via

RecognisedAsDuplicate(k) ==
    /\ tasks'[k].hash \in DOMAIN origin
    /\ origin[tasks'[k].hash].m = tasks'[k].m
    /\ tasks'[k].result = "False"
    /\ messages' = messages

\* C5: a message first stored by the backfill (with chat context) and then
\* delivered live (without), or the other way round, gets the fingerprint of
\* its row again, returns False and adds no row.
CrossModeDuplicate ==
    [][ /\ (BackfillCall /\ IngestedInOtherMode(tasks'[0])) => RecognisedAsDuplicate(0)
        /\ (LiveCall /\ IngestedInOtherMode(tasks'[FreeSlot]))
               => RecognisedAsDuplicate(FreeSlot) ]_vars

\* C5 witness: both orders in one state: the backfill has just skipped a message
\* stored by a live event of an earlier run, and a live event a message
\* stored by the backfill.
BothOrdersSkipped ==
    /\ tasks[0].dup /\ tasks[0].result = "False"
    /\ tasks[0].hash \in DOMAIN origin /\ origin[tasks[0].hash].via = "live"
    /\ \E k \in 1..MaxLive :
          /\ tasks[k].dup /\ tasks[k].result = "False"
          /\ tasks[k].hash \in DOMAIN origin /\ origin[tasks[k].hash].via = "backfill"

\* C6 (the claim as stated): the message with the chat_id attribute and the
\* same message with peer_id only get the same effective chat id and the same
\* fingerprint, for channel peers and for group peers.
RawFormsAgree ==
    probe.stage = 2
        => /\ probe.direct_id.ok /\ probe.nested_id.ok
           /\ probe.nested_id.val = probe.direct_id.val
           /\ probe.nested_hash = probe.direct_hash

Reached(t) == t.result \in {"True", "IntegrityError", "OperationalError"}

\* C7: a call whose sender resolution failed goes on to the insert, and when the
\* storage accepts the insert it returns True with a row that keeps sender_id
\* and has the three sender name fields null.
SenderFailureTolerated ==
    \A k \in TaskIds :
        tasks[k].sender_failed
            => /\ tasks[k].pc = "done" => Reached(tasks[k])
               /\ tasks[k].result = "True"
                     => LET r == RowWithHash(tasks[k].hash)
                        IN /\ r.sender_id = tasks[k].m.sender_id
                           /\ r.sender_id # NoId
                           /\ r.sender_username = Null
                           /\ r.sender_first_name = Null
                           /\ r.sender_last_name = Null

\* C7 witness: sender resolution failed and the row was inserted.
SenderFailedRowStored ==
    \E k \in TaskIds :
        /\ tasks[k].sender_failed /\ tasks[k].result = "True"
        /\ RowWithHash(tasks[k].hash).sender_id = 7
        /\ RowWithHash(tasks[k].hash).sender_username = Null

\* C8: a call without chat context whose chat resolution or chat upsert failed
\* goes on to the insert, and when the storage accepts the insert it returns
\* True with a row that has chat_title "Unknown" and chat_username null.
ChatFailureTolerated ==
    \A k \in TaskIds :
        tasks[k].chat_failed
            => /\ tasks[k].via = "live"
               /\ tasks[k].pc = "done" /\ Reached(tasks[k])
               /\ tasks[k].result = "True"
                     => LET r == RowWithHash(tasks[k].hash)
                        IN r.chat_title = "Unknown" /\ r.chat_username = Null

\* C8 witness: chat resolution failed and the row was inserted with the placeholder.
ChatFailedRowStored ==
    \E k \in 1..MaxLive :
        /\ tasks[k].chat_failed /\ tasks[k].result = "True"
        /\ RowWithHash(tasks[k].hash).chat_title = "Unknown"

\* C9 (the claim as stated): no failure of one chat's processing, the upsert
\* of its Chat row included, ends the backfill.
ChatFailureNeverEndsBackfill ==
    ~(mgr.pc = "closed" /\ mgr.error = "save_chat_info")

\* C10 (the claim as stated): a chat whose processing failed returns the count 0.
FailedChatReturnsZero ==
    (mgr.last.valid /\ mgr.last.failed # "no") => mgr.last.count = 0

\* C10 amended: a chat whose processing failed returns the number of rows the
\* call inserted before the failure, which is 0 when the chat could not be resolved.
FailedChatReturnsInserted ==
    (mgr.last.valid /\ mgr.last.failed # "no")
        => /\ mgr.last.count = mgr.last.inserted
           /\ mgr.last.failed = "resolve" => mgr.last.count = 0

\* C10 witness: paging failed after a message of the chat had been inserted.
FailedAfterInsert ==
    mgr.last.valid /\ mgr.last.failed = "paging" /\ mgr.last.inserted = 1


\* this step completes a call of save_message in slot k
Completes(k) == tasks'[k].pc = "done" /\ tasks'[k] # tasks[k]

\* C11: when crawl_all_chats returns, its total is the number of rows inserted
\* since the run began, and a step inserts a row exactly when a call of
\* save_message ends in it with True.
TotalCountsInsertedRows ==
    [][ /\ (~mgr.returned /\ mgr'.returned) => mgr'.total = Len(messages') - mgr'.run_base
        /\ (Len(messages') # Len(messages))
              <=> (\E k \in TaskIds : Completes(k) /\ tasks'[k].result = "True") ]_vars

\* C11 witness: the backfill of a later run, over a store that already held
\* rows and with a failure on the way, has returned 1 having inserted one row.
TotalAfterMixedBackfill ==
    /\ mgr.returned /\ mgr.total = 1 /\ mgr.run_base > 0
    /\ Len(messages) = mgr.run_base + 1
    /\ nFaults > 0

\* C12 (the claim as stated): an insert failure inside a chat's backfill drops
\* that message only, so the chat's processing never stops at that message
\* with messages of the page left over.
InsertFailureDropsOneMessage ==
    (mgr.last.valid /\ mgr.last.failed = "save_message")
        => mgr.last.seen = Len(Paged(mgr.last.chat_id))


\* a handler task has ended with an exception
HandlerFailed ==
    \E k \in 1..MaxLive : tasks[k].pc = "done" /\ tasks[k].result \in HandlerErrors

\* C13: a failure while one live event is handled never escapes the handler:
\* the run does not end with an error because of it, and while the
\* subscription lasts a later event is still taken by the handler.
HandlerFaultIsolated ==
    (HandlerFailed \/ mgr.handler_failed)
        => /\ mgr.error = "none"
           /\ mgr.pc \in {"monitoring", "disconnecting"}
           /\ (mgr.pc = "monitoring" /\ nEvents < MaxEvents /\ \E k \in 1..MaxLive : Free(k))
                 => \A m \in LiveMsgs : ENABLED LiveEvent(m)

\* C13 witness: a handler failed, and an event that arrived after the failure
\* (it took the failed handler's slot) was stored.
StoredAfterHandlerFailure ==
    /\ mgr.handler_failed
    /\ ~HandlerFailed
    /\ \E k \in 1..MaxLive : tasks[k].via = "live" /\ tasks[k].result = "True"

\* C14: an event is passed to save_message iff it has text and its peer is a
\* group or channel; an event not passed writes nothing; a passed event is
\* saved without chat context, so its row is inserted only by the step that
\* follows the chat resolution.
LiveRoutingFilter ==
    [][ /\ nEvents' = nEvents + 1
           => LET t == tasks'[FreeSlot]
              IN /\ (t.result # "not_routed")
                       <=> (t.m.text \notin {Null, ""}
                            /\ t.m.peer_id.type \in {"PeerChannel", "PeerChat"})
                 /\ t.result = "not_routed" => UNCHANGED <<messages, users, chats>>
                 /\ t.pc # "done" => (~t.chat_info.given /\ t.pc \in {"get_sender", "get_chat"})
        /\ \A k \in 1..MaxLive :
              (Completes(k) /\ tasks'[k].result = "True")
                 => tasks[k].pc \in {"get_chat", "get_permissions"} ]_vars

\* C14 witness: a private event was dropped: no row holds it, the chats are
\* those of the dialog list and the only user is the sender of a channel
\* message; an event passed on is waiting for its chat to be resolved.
PrivateDroppedChannelRouted ==
    /\ \E k \in 1..MaxLive : tasks[k].m = P5 /\ tasks[k].result = "not_routed"
    /\ \E k \in 1..MaxLive : tasks[k].via = "live" /\ tasks[k].pc = "get_chat"
    /\ RowsOf(messages, P5) = {}
    /\ DOMAIN chats = {1, 2} /\ DOMAIN users \subseteq {M3.sender_id}


\* m is among the Limit most recent messages of its chat
AmongMostRecent(m) ==
    \E c \in {1, 2} : \E i \in 1..Limit : i <= Len(History(c)) /\ History(c)[i] = m

\* C15: the backfill of one chat inserts at most Limit rows, and every row the
\* backfill inserted holds one of the Limit most recent messages of its chat.
BackfillWithinLimit ==
    /\ \A h \in DOMAIN origin : origin[h].via = "backfill" => AmongMostRecent(origin[h].m)
    /\ mgr.last.valid => mgr.last.inserted <= Limit
    /\ mgr.pc \in {"iter", "saving"} => (Len(messages) - mgr.base <= Limit /\ mgr.mi <= Limit + 1)

\* C15 witness: the channel's backfill ended normally having taken Limit
\* messages, one of them skipped for lack of text, and the older text message
\* behind them is not stored.
OlderMessageLeftOut ==
    /\ mgr.last.valid /\ mgr.last.chat_id = 1 /\ mgr.last.failed = "no"
    /\ mgr.last.seen = Limit /\ mgr.last.inserted < Limit
    /\ Limit < Len(History(1))
    /\ RowsOf(messages, History(1)[Limit + 1]) = {}


\* C16 (the claim as stated): writing a User or Chat row that already exists
\* leaves its created_at as it was.
FirstSeenPreserved ==
    [][ /\ \A u \in DOMAIN users : users'[u].created_at = users[u].created_at
        /\ \A c \in DOMAIN chats : chats'[c].created_at = chats[c].created_at ]_vars


\* C17: the handle is closed exactly when the run has ended through the
\* cleanup block; no row is written in the step that closes it or after it;
\* and once run_until_disconnected is ending, the run gets to its end.
CleanupGuaranteed ==
    /\ []((mgr.conn = "closed") <=> (mgr.pc = "closed"))
    /\ [][(mgr'.conn = "closed") => UNCHANGED <<messages, users, chats>>]_vars
    /\ (mgr.pc = "disconnecting") ~> (mgr.pc \in {"closed", "crashed"})

\* C17 witness: a cancelled handler has written its rows while the run was
\* ending, before the handle was closed.
WroteWhileDisconnecting ==
    /\ mgr.pc = "disconnecting" /\ mgr.conn = "open"
    /\ \E k \in 1..MaxLive : tasks[k].via = "live" /\ tasks[k].result = "True"


\* C18: a step never changes or removes a Message row that is stored: the
\* table only grows at its end.
MessageRowsImmutable ==
    [][ \A i \in 1..Len(messages) :
           i <= Len(messages') /\ messages'[i] = messages[i] ]_vars

\* C18 witness: the channel's Chat row has a new title while a Message row of
\* the channel still carries the title captured when it was inserted.
SnapshotOutlivesChange ==
    /\ 1 \in DOMAIN chats /\ chats[1].title = "News2"
    /\ \E i \in 1..Len(messages) :
          messages[i].chat_id = get_peer_id(Channel1) /\ messages[i].chat_title = "News"


\* this step starts the call of save_message in slot k
Begins(k) == IF k = 0 THEN BackfillCall ELSE (LiveCall /\ k = FreeSlot)

\* C19: a message whose ingestion was cut short when the previous run was
\* killed is not skipped when it is ingested again and no row holds it, and a
\* call for it that returns True leaves exactly one row; when its row had been
\* committed the new call returns False and the table stays as it is.
CrashRecovery ==
    [][ \A k \in TaskIds :
          /\ (Begins(k) /\ tasks'[k].m \in mgr.interrupted)
                => IF RowsOf(messages, tasks'[k].m) # {}
                   THEN tasks'[k].result = "False" /\ messages' = messages
                   ELSE tasks'[k].result # "False"
          /\ (Completes(k) /\ tasks'[k].m \in mgr.interrupted /\ tasks'[k].result = "True")
                => /\ RowsOf(messages, tasks'[k].m) = {}
                   /\ Cardinality(RowsOf(messages', tasks'[k].m)) = 1 ]_vars

\* C19 witness: after a kill, the run that followed has skipped a message
\* whose row was committed before the kill and has stored, in one row, a
\* message whose handler the kill had cut short.
RecoveredAfterCrash ==
    /\ nRuns > 1
    /\ tasks[0].m \in mgr.interrupted /\ tasks[0].dup /\ tasks[0].result = "False"
    /\ \E k \in 1..MaxLive :
          /\ tasks[k].m \in mgr.interrupted /\ tasks[k].result = "True"
          /\ Cardinality(RowsOf(messages, tasks[k].m)) = 1

\* a call of save_message is between its first await and its return
InFlight(k) == tasks[k].pc \notin {"idle", "done"}

\* C20: handler tasks exist only once crawl_all_chats has returned, no call of
\* the backfill is in flight together with one of a handler, and a run never
\* goes from monitoring back to the backfill.
TwoPhaseOrder ==
    /\ []( /\ (\E k \in 1..MaxLive : tasks[k].pc # "idle")
                => (mgr.pc \in {"monitoring", "disconnecting"} /\ mgr.returned)
           /\ InFlight(0) => (mgr.pc = "saving" /\ \A k \in 1..MaxLive : tasks[k].pc = "idle")
           /\ mgr.pc \in {"monitoring", "disconnecting"} => (mgr.returned /\ ~InFlight(0)) )
    /\ [][ /\ mgr.pc \in {"monitoring", "disconnecting"}
                => mgr'.pc \in {"monitoring", "disconnecting", "closed", "crashed"}
           /\ (mgr'.pc = "monitoring" /\ mgr.pc # "monitoring")
                => (mgr.pc = "crawl" /\ mgr.ci > Len(mgr.chats)) ]_vars

\* C20 witness: the backfill has returned a total of stored messages and a
\* handler is at work on a live event.
MonitoringAfterBackfill ==
    /\ mgr.pc = "monitoring" /\ mgr.returned /\ mgr.total > 0
    /\ \E k \in 1..MaxLive : InFlight(k)


\* this step is the return of get_entity(sender_id) to the call in slot k
SenderStep(k) ==
    tasks[k].pc = "get_sender" /\ tasks'[k] # tasks[k] /\ tasks'[k].pc # "idle"

\* C21: while the process lives an entry of user_cache stays as it was first
\* written; save_user_info for a cached id writes nothing and hands back the
\* cached record, whatever the entity now carries; a new process starts with
\* an empty cache, and save_user_info for an id not in the cache writes the
\* User row and the cache entry.
UserCacheReadThrough ==
    [][ /\ (nRuns' = nRuns /\ mgr'.pc \notin {"closed", "crashed"})
              => \A u \in DOMAIN user_cache :
                    u \in DOMAIN user_cache' /\ user_cache'[u] = user_cache[u]
        /\ nRuns' # nRuns => user_cache' = EmptyTable
        /\ \A k \in TaskIds :
              (SenderStep(k) /\ ~tasks'[k].sender_failed)
                 => LET u == tasks[k].m.sender_id
                    IN IF u \in DOMAIN user_cache
                       THEN /\ users' = users
                            /\ user_cache' = user_cache
                            /\ InFlight(k)' => tasks'[k].sender_info = user_cache[u]
                            /\ tasks'[k].result = "True"
                                  => messages'[Len(messages')].sender_first_name
                                        = user_cache[u].first_name
                       ELSE /\ u \in DOMAIN user_cache' /\ u \in DOMAIN users'
                            /\ users'[u].first_name = user_cache'[u].first_name
                            /\ users'[u].updated_at = Now ]_vars

\* C21 witness: a sender whose entity now carries another first name was
\* answered from the cache: the User row and the stored message keep the
\* name captured first.
StaleCacheHit ==
    \E k \in TaskIds :
        /\ tasks[k].stale /\ tasks[k].result = "True"
        /\ LET u == tasks[k].m.sender_id
           IN /\ users[u].first_name = user_cache[u].first_name
              /\ RowWithHash(tasks[k].hash).sender_first_name = user_cache[u].first_name


\* C22: the message_hash of every stored row is the fingerprint of that row's
\* own message_id, chat_id and text.
StoredFingerprintMatchesColumns ==
    \A i \in 1..Len(messages) :
        messages[i].message_hash
            = generate_message_hash(messages[i].message_id, messages[i].chat_id,
                                    messages[i].text)

\* C22 witness: rows were stored by the backfill, whose chat context carries
\* the entity's id and not the id of the fingerprint, and by a live handler.
RowsStoredInBothModes ==
    /\ \E h \in DOMAIN origin : origin[h].via = "backfill"
    /\ \E h \in DOMAIN origin : origin[h].via = "live"
    /\ \A i \in 1..Len(messages) : messages[i].chat_id \notin DOMAIN chats

====
